---------------------------- MODULE Spec2Model ----------------------------
(***************************************************************************)
(* A model of the CHIP-8 interpreter of src/src/chip.rs and of the two     *)
(* run loops that drive it: the loop of main (src/src/main.rs), which is   *)
(* what the binary runs, and Chip::start_loop.                             *)
(*                                                                         *)
(*   Spec      the program: Chip::new, Chip::load, then the loop of main   *)
(*   SpecLoop  Chip::new, Chip::load, then Chip::start_loop                *)
(***************************************************************************)
EXTENDS Integers, Sequences, FiniteSets, TLC

VARIABLES
    memory,               \* [u8; 4096]
    pc,                   \* u16
    registers,            \* [u8; 16]
    i,                    \* u16
    dt,                   \* u8, delay timer
    st,                   \* u8, sound timer
    waiting_for_key,      \* bool
    waiting_key_register, \* usize
    screen,               \* [u8; WIDTH * HEIGHT]
    stack,                \* Vec<u16>
    keypad,               \* [bool; 16]
    loc,                  \* position of the run loop inside its iteration
    status,               \* "running", "quit", "error" or "panic"
    last                  \* what the last step of the loop did (see Step)

vars == <<memory, pc, registers, i, dt, st, waiting_for_key,
          waiting_key_register, screen, stack, keypad, loc, status, last>>

-----------------------------------------------------------------------------
(* Program constants *)

WIDTH == 64

HEIGHT == 32

STACK_SIZE == 30

MEMORY_SIZE == 4096

ROM_START == 512

U16 == 65536

U8 == 256

-----------------------------------------------------------------------------
(* Bounds of the model *)

\* Largest number of host events one poll_iter() drain delivers.
MaxDrain == 2

-----------------------------------------------------------------------------
(* u8 / u16 arithmetic *)

RECURSIVE BitAnd(_, _)
BitAnd(a, b) ==
    IF a = 0 \/ b = 0 THEN 0
    ELSE (a % 2) * (b % 2) + 2 * BitAnd(a \div 2, b \div 2)

RECURSIVE BitOr(_, _)
BitOr(a, b) ==
    IF a = 0 THEN b
    ELSE IF b = 0 THEN a
    ELSE (IF a % 2 = 1 \/ b % 2 = 1 THEN 1 ELSE 0) + 2 * BitOr(a \div 2, b \div 2)

RECURSIVE BitXor(_, _)
BitXor(a, b) ==
    IF a = 0 THEN b
    ELSE IF b = 0 THEN a
    ELSE ((a + b) % 2) + 2 * BitXor(a \div 2, b \div 2)

\* `v as u8`: truncation of a wider unsigned value.
AsU8(v) == v % U8

\* Hexadecimal nibbles n3 n2 n1 n0 as a 16-bit word.
Word(n3, n2, n1, n0) == n3 * 4096 + n2 * 256 + n1 * 16 + n0

-----------------------------------------------------------------------------
(* Chip::load_fonts *)

font_data ==
    << 240, 144, 144, 144, 240,   \* 0
        32,  96,  32,  32, 112,   \* 1
       240,  16, 240, 128, 240,   \* 2
       240,  16, 240,  16, 240,   \* 3
       144, 144, 240,  16,  16,   \* 4
       240, 128, 240,  16, 240,   \* 5
       240, 128, 240, 144, 240,   \* 6
       240,  16,  32,  64,  64,   \* 7
       240, 144, 240, 144, 240,   \* 8
       240, 144, 240,  16, 240,   \* 9
       240, 144, 240, 144, 144,   \* A
       224, 144, 224, 144, 224,   \* B
       240, 128, 128, 128, 240,   \* C
       224, 144, 144, 144, 224,   \* D
       240, 128, 240, 128, 240,   \* E
       240, 128, 240, 128, 128 >> \* F

load_fonts(mem) ==
    [a \in DOMAIN mem |-> IF a < Len(font_data) THEN font_data[a + 1] ELSE mem[a]]

-----------------------------------------------------------------------------
(* Chip::new *)

keypad_map ==
    [Num1 |-> 1, Num2 |-> 2, Num3 |-> 3, Num4 |-> 12,
     Q |-> 4, W |-> 5, E |-> 6, R |-> 13,
     A |-> 7, S |-> 8, D |-> 9, F |-> 14,
     Z |-> 10, X |-> 0, C |-> 11, V |-> 15]

new ==
    [memory |-> load_fonts([a \in 0..(MEMORY_SIZE - 1) |-> 0]),
     pc |-> ROM_START,
     registers |-> [r \in 0..15 |-> 0],
     i |-> 0,
     dt |-> 0,
     st |-> 0,
     waiting_for_key |-> FALSE,
     waiting_key_register |-> 0,
     screen |-> [p \in 0..(WIDTH * HEIGHT - 1) |-> 0],
     stack |-> << >>,
     keypad |-> [k \in 0..15 |-> FALSE]]

(* Chip::load: one read() of the file into memory[0x200..]. *)
load(self, rom) ==
    [self EXCEPT !.memory =
        [a \in DOMAIN self.memory |->
            IF a >= ROM_START /\ a - ROM_START < Len(rom)
            THEN rom[a - ROM_START + 1] ELSE self.memory[a]]]


-----------------------------------------------------------------------------
(* Chip::execute_instruction                                               *)
(*                                                                         *)
(* The outcome of one call is a record: the chip after the call and the    *)
(* way the call ended: "Ok" (Ok(())), "Err" (an Err value is returned) or  *)
(* "Panic" (an index out of bounds, or an arithmetic overflow in a build   *)
(* with overflow checks: the thread unwinds).  The chip of a "Panic"       *)
(* outcome is the chip as the instruction found it, after the fetch.       *)

Ok(self) == [chip |-> self, result |-> "Ok", error |-> ""]

Err(self, message) == [chip |-> self, result |-> "Err", error |-> message]

Panic(self) == [chip |-> self, result |-> "Panic", error |-> ""]

\* The big-endian word at pc (lines 91-93); only read when pc + 1 < 4096.
fetch(self) == self.memory[self.pc] * 256 + self.memory[self.pc + 1]

\* 00E0
clear(self) == Ok([self EXCEPT !.screen = [p \in DOMAIN self.screen |-> 0]])

\* A variant of ret that takes the default address when the stack is empty.
ret_unchecked(self) ==
    IF Len(self.stack) > 0
    THEN Ok([self EXCEPT !.pc = self.stack[Len(self.stack)],
                         !.stack = SubSeq(self.stack, 1, Len(self.stack) - 1)])
    ELSE Ok([self EXCEPT !.pc = 0])

\* A variant of ret that takes the oldest address of the stack.
ret_fifo(self) ==
    IF Len(self.stack) > 0
    THEN Ok([self EXCEPT !.pc = self.stack[1], !.stack = Tail(self.stack)])
    ELSE Err(self, "Trying to return from the main stack")

\* 00EE: self is the chip after the fetch.
ret(self) ==
    IF Len(self.stack) > 0
    THEN Ok([self EXCEPT !.pc = self.stack[Len(self.stack)],
                         !.stack = SubSeq(self.stack, 1, Len(self.stack) - 1)])
    ELSE Err(self, "Trying to return from the main stack")

\* 1NNN
jump(self, instruction) == Ok([self EXCEPT !.pc = instruction % 4096])

\* 2NNN
call(self, instruction) ==
    IF Len(self.stack) + 1 >= STACK_SIZE
    THEN Err(self, "Stack overflow")
    ELSE Ok([self EXCEPT !.stack = Append(self.stack, self.pc),
                         !.pc = instruction % 4096])

\* 3XNN, 4XNN, 5XY_, 9XY_: the skip when `cond` holds.
skip_if(self, cond) == Ok(IF cond THEN [self EXCEPT !.pc = self.pc + 2] ELSE self)

\* A variant of add_with_carry that writes the flag before Vx.
add_with_carry_flag_first(self, x, y) ==
    LET sum == self.registers[x] + self.registers[y]
        s1 == [self EXCEPT !.registers[15] = IF sum > 255 THEN 1 ELSE 0]
    IN  Ok([s1 EXCEPT !.registers[x] = BitAnd(sum, 255)])

\* 8XY4
add_with_carry(self, x, y) ==
    LET sum == self.registers[x] + self.registers[y]
        s1 == [self EXCEPT !.registers[x] = BitAnd(sum, 255)]
    IN  Ok([s1 EXCEPT !.registers[15] = IF sum > 255 THEN 1 ELSE 0])

\* 8XY5
subtract_with_borrow(self, x, y) ==
    LET x_value == self.registers[x]
        y_value == self.registers[y]
    IN  IF x_value >= y_value
        THEN Ok([[self EXCEPT !.registers[15] = 1]
                       EXCEPT !.registers[x] = AsU8(x_value - y_value)])
        ELSE Ok([[self EXCEPT !.registers[15] = 0]
                       EXCEPT !.registers[x] = AsU8(256 + x_value - y_value)])

\* 8XY6
right_shift(self, x) ==
    LET s1 == [self EXCEPT !.registers[15] = BitAnd(self.registers[x], 1)]
    IN  Ok([s1 EXCEPT !.registers[x] = s1.registers[x] \div 2])

\* 8XY7
subtract_x_from_y(self, x, y) ==
    LET x_value == self.registers[x]
        y_value == self.registers[y]
    IN  IF y_value >= x_value
        THEN Ok([[self EXCEPT !.registers[15] = 1]
                       EXCEPT !.registers[x] = AsU8(y_value - x_value)])
        ELSE Ok([[self EXCEPT !.registers[15] = 0]
                       EXCEPT !.registers[x] = AsU8(256 + x_value - y_value)])

\* The arm 0x0008 of the 0x8000 group ("Left Shift By 1").
left_shift(self, x) ==
    LET s1 == [self EXCEPT !.registers[15] = BitAnd(self.registers[x], 128) \div 128]
    IN  Ok([s1 EXCEPT !.registers[x] = (s1.registers[x] * 2) % U8])

\* 8XY_: dispatch on the low nibble.
register_operation(self, instruction) ==
    LET operation == instruction % 16
        x == (instruction % 4096) \div 256
        y == (instruction % 256) \div 16
    IN  CASE operation = 0 -> Ok([self EXCEPT !.registers[x] = self.registers[y]])
          [] operation = 1 ->
                Ok([self EXCEPT !.registers[x] = BitOr(self.registers[x], self.registers[y])])
          [] operation = 2 ->
                Ok([self EXCEPT !.registers[x] = BitAnd(self.registers[x], self.registers[y])])
          [] operation = 3 ->
                Ok([self EXCEPT !.registers[x] = BitXor(self.registers[x], self.registers[y])])
          [] operation = 4 -> add_with_carry(self, x, y)
          [] operation = 5 -> subtract_with_borrow(self, x, y)
          [] operation = 6 -> right_shift(self, x)
          [] operation = 7 -> subtract_x_from_y(self, x, y)
          [] operation = 8 -> left_shift(self, x)
          [] OTHER -> Ok(self)

\* BNNN
jump_with_offset(self, instruction) ==
    Ok([self EXCEPT !.pc = ((instruction % 4096) + self.registers[0]) % U16])

\* CXNN: rand_num is the value random() returns.
random_number(self, instruction, rand_num) ==
    LET x == (instruction % 4096) \div 256
        mask == instruction % 256
    IN  Ok([self EXCEPT !.registers[x] = BitAnd(rand_num, mask)])

\* `self.i + k` on u16, then `as usize` as an index into memory: -1 stands
\* for a panic (overflow in a build with overflow checks, or an index past
\* the array); without overflow checks the sum wraps.
index(self, k, overflow_checks) ==
    LET sum == self.i + k
        addr == IF sum >= U16 THEN (IF overflow_checks THEN -1 ELSE sum % U16) ELSE sum
    IN  IF addr >= MEMORY_SIZE THEN -1 ELSE addr

\* One pixel of a sprite, the pixel written over the screen with OR.
draw_pixel_or(self, sprite_row, x, y, row, column) ==
    LET pixel == BitAnd(sprite_row \div (2 ^ (7 - column)), 1)
        screen_x == (x + column) % WIDTH
        screen_y == (y + row) % HEIGHT
        pixel_index == screen_y * WIDTH + screen_x
        s1 == IF pixel = 1 /\ self.screen[pixel_index] = 1
              THEN [self EXCEPT !.registers[15] = 1] ELSE self
    IN  [s1 EXCEPT !.screen[pixel_index] = BitOr(s1.screen[pixel_index], pixel)]

\* DXYN, lines 284-293: one pixel of the sprite.
draw_pixel(self, sprite_row, x, y, row, column) ==
    LET pixel == BitAnd(sprite_row \div (2 ^ (7 - column)), 1)
        screen_x == (x + column) % WIDTH
        screen_y == (y + row) % HEIGHT
        pixel_index == screen_y * WIDTH + screen_x
        s1 == IF pixel = 1 /\ self.screen[pixel_index] = 1
              THEN [self EXCEPT !.registers[15] = 1] ELSE self
    IN  [s1 EXCEPT !.screen[pixel_index] = BitXor(s1.screen[pixel_index], pixel)]

\* DXYN, line 283: the columns column..7 of one row.
RECURSIVE draw_columns(_, _, _, _, _, _)
draw_columns(self, sprite_row, x, y, row, column) ==
    IF column >= 8 THEN self
    ELSE draw_columns(draw_pixel(self, sprite_row, x, y, row, column),
                      sprite_row, x, y, row, column + 1)

\* DXYN, line 280: the rows row..n-1.
RECURSIVE draw_rows(_, _, _, _, _, _, _)
draw_rows(orig, self, x, y, n, row, overflow_checks) ==
    IF row >= n THEN Ok(self)
    ELSE IF index(self, row, overflow_checks) < 0 THEN Panic(orig)
    ELSE draw_rows(orig,
                   draw_columns(self, self.memory[index(self, row, overflow_checks)],
                                x, y, row, 0),
                   x, y, n, row + 1, overflow_checks)

\* DXYN
draw(self, instruction, overflow_checks) ==
    LET x == (instruction % 4096) \div 256
        y == (instruction % 256) \div 16
        n == instruction % 16
    IN  draw_rows(self, self, self.registers[x], self.registers[y], n, 0, overflow_checks)

\* EX__
keyboard_input(self, instruction) ==
    LET operation == instruction % 256
        x == (instruction % 4096) \div 256
        key == self.registers[x]
    IN  CASE operation = 158 ->      \* 0x9E
                IF key >= 16 THEN Panic(self) ELSE skip_if(self, self.keypad[key])
          [] operation = 161 ->      \* 0xA1
                IF key >= 16 THEN Panic(self) ELSE skip_if(self, ~self.keypad[key])
          [] OTHER -> Ok(self)

\* FX1E
add_to_i(self, x, overflow_checks) ==
    LET sum == self.i + self.registers[x]
    IN  IF sum >= U16
        THEN (IF overflow_checks THEN Panic(self) ELSE Ok([self EXCEPT !.i = sum % U16]))
        ELSE Ok([self EXCEPT !.i = sum])

\* A variant of store_bcd whose tens digit is digit / 10.
store_bcd_tens_unreduced(self, x) ==
    LET digit == self.registers[x]
    IN  IF self.i + 2 >= MEMORY_SIZE THEN Panic(self)
        ELSE Ok([self EXCEPT !.memory[self.i] = digit \div 100,
                             !.memory[self.i + 1] = digit \div 10,
                             !.memory[self.i + 2] = digit % 10])

\* FX33
store_bcd(self, x) ==
    LET digit == self.registers[x]
    IN  IF self.i + 2 >= MEMORY_SIZE THEN Panic(self)
        ELSE Ok([self EXCEPT !.memory[self.i] = digit \div 100,
                             !.memory[self.i + 1] = (digit % 100) \div 10,
                             !.memory[self.i + 2] = digit % 10])

\* A variant of store_registers whose loop is `for i in 0..x`.
RECURSIVE store_registers_exclusive(_, _, _, _, _)
store_registers_exclusive(orig, self, x, k, overflow_checks) ==
    IF k >= x THEN Ok(self)
    ELSE IF index(self, k, overflow_checks) < 0 THEN Panic(orig)
    ELSE store_registers_exclusive(orig,
            [self EXCEPT !.memory[index(self, k, overflow_checks)] = self.registers[k]],
            x, k + 1, overflow_checks)

\* FX55: the registers k..x.
RECURSIVE store_registers(_, _, _, _, _)
store_registers(orig, self, x, k, overflow_checks) ==
    IF k >= x + 1 THEN Ok(self)
    ELSE IF index(self, k, overflow_checks) < 0 THEN Panic(orig)
    ELSE store_registers(orig,
            [self EXCEPT !.memory[index(self, k, overflow_checks)] = self.registers[k]],
            x, k + 1, overflow_checks)

\* FX65: the registers k..x.
RECURSIVE read_registers(_, _, _, _, _)
read_registers(orig, self, x, k, overflow_checks) ==
    IF k >= x + 1 THEN Ok(self)
    ELSE IF index(self, k, overflow_checks) < 0 THEN Panic(orig)
    ELSE read_registers(orig,
            [self EXCEPT !.registers[k] = self.memory[index(self, k, overflow_checks)]],
            x, k + 1, overflow_checks)

\* FX__
timers_and_sound(self, instruction, overflow_checks) ==
    LET x == (instruction % 4096) \div 256
        operation == instruction % 256
    IN  CASE operation = 7 -> Ok([self EXCEPT !.registers[x] = self.dt])
          [] operation = 10 ->      \* 0x0A
                Ok([self EXCEPT !.waiting_for_key = TRUE, !.waiting_key_register = x])
          [] operation = 21 -> Ok([self EXCEPT !.dt = self.registers[x]])   \* 0x15
          [] operation = 24 -> Ok([self EXCEPT !.st = self.registers[x]])   \* 0x18
          [] operation = 30 -> add_to_i(self, x, overflow_checks)           \* 0x1E
          [] operation = 41 -> Ok([self EXCEPT !.i = self.registers[x] * 5]) \* 0x29
          [] operation = 51 -> store_bcd(self, x)                           \* 0x33
          [] operation = 85 -> store_registers(self, self, x, 0, overflow_checks)  \* 0x55
          [] operation = 101 -> read_registers(self, self, x, 0, overflow_checks)  \* 0x65
          [] OTHER -> Ok(self)

\* Lines 99-379: the dispatch on the high nibble, self being the chip after
\* the fetch (pc already advanced).
dispatch(self, instruction, rand_num, overflow_checks) ==
    LET nibble == instruction \div 4096
        x == (instruction % 4096) \div 256
        y == (instruction % 256) \div 16
        value == instruction % 256
    IN  CASE nibble = 0 ->
                (CASE instruction = 224 -> clear(self)    \* 0x00E0
                   [] instruction = 238 -> ret(self)      \* 0x00EE
                   [] OTHER -> Ok(self))
          [] nibble = 1 -> jump(self, instruction)
          [] nibble = 2 -> call(self, instruction)
          [] nibble = 3 -> skip_if(self, self.registers[x] = value)
          [] nibble = 4 -> skip_if(self, self.registers[x] # value)
          [] nibble = 5 -> skip_if(self, self.registers[x] = self.registers[y])
          [] nibble = 6 -> Ok([self EXCEPT !.registers[x] = value])
          [] nibble = 7 -> Ok([self EXCEPT !.registers[x] = (value + self.registers[x]) % U8])
          [] nibble = 8 -> register_operation(self, instruction)
          [] nibble = 9 -> skip_if(self, self.registers[x] # self.registers[y])
          [] nibble = 10 -> Ok([self EXCEPT !.i = instruction % 4096])
          [] nibble = 11 -> jump_with_offset(self, instruction)
          [] nibble = 12 -> random_number(self, instruction, rand_num)
          [] nibble = 13 -> draw(self, instruction, overflow_checks)
          [] nibble = 14 -> keyboard_input(self, instruction)
          [] OTHER -> timers_and_sound(self, instruction, overflow_checks)

\* A variant of execute_instruction without the test of line 88: the fetch
\* indexes memory past its end.
execute_instruction_unguarded(self, rand_num, overflow_checks) ==
    IF self.pc + 1 >= 4096 THEN Panic(self)
    ELSE dispatch([self EXCEPT !.pc = self.pc + 2], fetch(self), rand_num, overflow_checks)

\* Lines 87-381.
execute_instruction(self, rand_num, overflow_checks) ==
    IF self.pc + 1 >= 4096 THEN Ok(self)
    ELSE dispatch([self EXCEPT !.pc = self.pc + 2], fetch(self), rand_num, overflow_checks)

-----------------------------------------------------------------------------
(* Host events (sdl2::event::Event), as the loops match on them *)

KeyDown(key) == [type |-> "KeyDown", keycode |-> key]

KeyUp(key) == [type |-> "KeyUp", keycode |-> key]

Quit == [type |-> "Quit", keycode |-> "None"]

\* Any event the loops do not match on (a KeyDown without keycode, a mouse event).
OtherEvent == [type |-> "Other", keycode |-> "None"]

\* The events the host delivers in the model: two mapped keys, Escape and an
\* unmapped key ("P").
HostEvents ==
    {KeyDown("Num1"), KeyDown("V"), KeyDown("Escape"), KeyDown("P"),
     KeyUp("Num1"), Quit, OtherEvent}

\* What one poll_iter() can deliver: up to MaxDrain events.
Drains == UNION {[1..n -> HostEvents] : n \in 0..MaxDrain}

\* The values random() returns in the model.
RandomBytes == {0, 90, 255}

-----------------------------------------------------------------------------
(* Chip::start_loop *)

\* A variant of timers that decrements ST without the test for zero.
timers_unguarded(self) ==
    LET s1 == IF self.dt > 0 THEN [self EXCEPT !.dt = self.dt - 1] ELSE self
    IN  [s1 EXCEPT !.st = (s1.st + U8 - 1) % U8]

\* Lines 387-394.
timers(self) ==
    LET s1 == IF self.dt > 0 THEN [self EXCEPT !.dt = self.dt - 1] ELSE self
    IN  IF s1.st > 0 THEN [s1 EXCEPT !.st = s1.st - 1] ELSE s1

\* Lines 398-404.
key_up(self, key) ==
    IF key \in DOMAIN keypad_map
    THEN [self EXCEPT !.keypad[keypad_map[key]] = FALSE]
    ELSE self

\* A variant of key_down that stores the key and leaves the latch armed.
key_down_keeps_latch(self, key) ==
    IF key \in DOMAIN keypad_map
    THEN LET key_index == keypad_map[key]
             s1 == [self EXCEPT !.keypad[key_index] = TRUE]
         IN  IF s1.waiting_for_key
             THEN [s1 EXCEPT !.registers[s1.waiting_key_register] = key_index]
             ELSE s1
    ELSE self

\* Lines 411-419 (after the Escape test).
key_down(self, key) ==
    IF key \in DOMAIN keypad_map
    THEN LET key_index == keypad_map[key]
             s1 == [self EXCEPT !.keypad[key_index] = TRUE]
         IN  IF s1.waiting_for_key
             THEN [s1 EXCEPT !.registers[s1.waiting_key_register] = key_index,
                             !.waiting_for_key = FALSE]
             ELSE s1
    ELSE self

\* A variant of poll_events that goes on with the drain after a quit signal.
RECURSIVE poll_events_drains_on(_, _, _)
poll_events_drains_on(self, events, k) ==
    IF k > Len(events) THEN [chip |-> self, quit |-> FALSE]
    ELSE LET event == events[k]
         IN  CASE event.type = "KeyUp" ->
                     poll_events_drains_on(key_up(self, event.keycode), events, k + 1)
               [] event.type = "KeyDown" /\ event.keycode # "Escape" ->
                     poll_events_drains_on(key_down(self, event.keycode), events, k + 1)
               [] event.type \in {"KeyDown", "Quit"} ->
                     [chip |-> poll_events_drains_on(self, events, k + 1).chip,
                      quit |-> TRUE]
               [] OTHER -> poll_events_drains_on(self, events, k + 1)

\* Lines 396-424: the drain of the events k..Len(events); quit is `break 'running`.
RECURSIVE poll_events(_, _, _)
poll_events(self, events, k) ==
    IF k > Len(events) THEN [chip |-> self, quit |-> FALSE]
    ELSE LET event == events[k]
         IN  CASE event.type = "KeyUp" ->
                     poll_events(key_up(self, event.keycode), events, k + 1)
               [] event.type = "KeyDown" ->
                     IF event.keycode = "Escape"
                     THEN [chip |-> self, quit |-> TRUE]
                     ELSE poll_events(key_down(self, event.keycode), events, k + 1)
               [] event.type = "Quit" -> [chip |-> self, quit |-> TRUE]
               [] OTHER -> poll_events(self, events, k + 1)

(* main, lines 34-43: whether the drain breaks out of the loop. *)
main_poll_events(events) ==
    \E k \in 1..Len(events) :
        \/ events[k].type = "Quit"
        \/ events[k].type = "KeyDown" /\ events[k].keycode = "Escape"

-----------------------------------------------------------------------------
(* ROM files *)

\* The bytes of a sequence of 16-bit instructions, big-endian.
Program(words) ==
    [k \in 1..(2 * Len(words)) |->
        IF k % 2 = 1 THEN words[(k + 1) \div 2] \div 256 ELSE words[k \div 2] % 256]

\* Arm the key-wait with timers running, resume, arm it again.
KeyWaitRom ==
    Program(<< Word(6, 0, 0, 3),     \* 200: LD V0, 3
               Word(15, 0, 1, 5),    \* 202: LD DT, V0
               Word(15, 0, 1, 8),    \* 204: LD ST, V0
               Word(15, 1, 0, 10),   \* 206: LD V1, K
               Word(7, 2, 0, 1),     \* 208: ADD V2, 1
               Word(15, 3, 0, 10),   \* 20A: LD V3, K
               Word(1, 2, 0, 12) >>) \* 20C: JP 20C

\* Unbounded recursion.
CallRom == Program(<< Word(2, 2, 0, 0) >>)   \* 200: CALL 200

\* Nested calls and returns, then a return from the main routine.
CallRetRom ==
    Program(<< Word(2, 2, 0, 6),     \* 200: CALL 206
               Word(2, 2, 0, 6),     \* 202: CALL 206
               Word(0, 0, 14, 14),   \* 204: RET
               Word(2, 2, 0, 10),    \* 206: CALL 20A
               Word(0, 0, 14, 14),   \* 208: RET
               Word(0, 0, 14, 14) >>) \* 20A: RET

\* BNNN with NNN + V0 past the top of memory, after one that stays inside.
JumpOffsetRom ==
    Program(<< Word(6, 0, 0, 4),     \* 200: LD V0, 4
               Word(11, 2, 0, 0),    \* 202: JP V0, 200   (to 204)
               Word(6, 0, 15, 15),   \* 204: LD V0, FF
               Word(11, 15, 15, 15) >>) \* 206: JP V0, FFF

\* A skip instruction in the last two bytes of memory.
TopOfMemoryRom ==
    [k \in 1..(MEMORY_SIZE - ROM_START) |->
        CASE k = 1 -> 31             \* 200: JP FFE
          [] k = 2 -> 254
          [] k = MEMORY_SIZE - ROM_START - 1 -> 48   \* FFE: SE V0, 0
          [] OTHER -> 0]

\* Start the delay timer, then jump to the last byte of memory.
EndOfMemoryRom ==
    Program(<< Word(6, 0, 0, 5),       \* 200: LD V0, 5
               Word(15, 0, 1, 5),      \* 202: LD DT, V0
               Word(1, 15, 15, 15) >>) \* 204: JP FFF

\* Draw the glyph 0 twice, draw it across the corner, clear.
DrawRom ==
    Program(<< Word(10, 0, 0, 0),    \* 200: LD I, 000
               Word(13, 0, 1, 5),    \* 202: DRW V0, V1, 5
               Word(13, 0, 1, 5),    \* 204: DRW V0, V1, 5
               Word(6, 0, 3, 14),    \* 206: LD V0, 3E
               Word(6, 1, 1, 14),    \* 208: LD V1, 1E
               Word(13, 0, 1, 5),    \* 20A: DRW V0, V1, 5
               Word(0, 0, 14, 0),    \* 20C: CLS
               Word(1, 2, 0, 14) >>) \* 20E: JP 20E

\* A sprite whose second row lies past the last byte of memory.
DrawBeyondRom ==
    Program(<< Word(10, 15, 15, 15), \* 200: LD I, FFF
               Word(13, 0, 1, 2),    \* 202: DRW V0, V1, 2
               Word(1, 2, 0, 4) >>)  \* 204: JP 204

\* I moved past 0xFFF by FX1E, then a draw.
IndexBeyondRom ==
    Program(<< Word(6, 0, 15, 15),   \* 200: LD V0, FF
               Word(10, 15, 15, 15), \* 202: LD I, FFF
               Word(15, 0, 1, 14),   \* 204: ADD I, V0
               Word(13, 1, 1, 1),    \* 206: DRW V1, V1, 1
               Word(1, 2, 0, 8) >>)  \* 208: JP 208

\* 8XY7 with and without borrow.
SubnRom ==
    Program(<< Word(6, 0, 0, 5),     \* 200: LD V0, 5
               Word(6, 1, 0, 2),     \* 202: LD V1, 2
               Word(8, 0, 1, 7),     \* 204: SUBN V0, V1
               Word(6, 3, 0, 2),     \* 206: LD V3, 2
               Word(6, 4, 0, 5),     \* 208: LD V4, 5
               Word(8, 3, 4, 7),     \* 20A: SUBN V3, V4
               Word(1, 2, 0, 12) >>) \* 20C: JP 20C

\* The shifts: 8XYE, 8XY8, 8XY6.
ShiftRom ==
    Program(<< Word(6, 0, 8, 1),     \* 200: LD V0, 81
               Word(8, 0, 1, 14),    \* 202: SHL V0
               Word(6, 2, 8, 1),     \* 204: LD V2, 81
               Word(8, 2, 1, 8),     \* 206: 8218
               Word(8, 2, 1, 6),     \* 208: SHR V2
               Word(1, 2, 0, 10) >>) \* 20A: JP 20A

\* Arithmetic and logic, the skips.
AluRom ==
    Program(<< Word(6, 0, 15, 15),   \* 200: LD V0, FF
               Word(6, 1, 0, 2),     \* 202: LD V1, 2
               Word(8, 0, 1, 4),     \* 204: ADD V0, V1
               Word(8, 0, 1, 5),     \* 206: SUB V0, V1
               Word(8, 2, 1, 0),     \* 208: LD V2, V1
               Word(8, 2, 0, 1),     \* 20A: OR V2, V0
               Word(8, 2, 1, 2),     \* 20C: AND V2, V1
               Word(8, 2, 0, 3),     \* 20E: XOR V2, V0
               Word(7, 2, 15, 15),   \* 210: ADD V2, FF
               Word(3, 1, 0, 2),     \* 212: SE V1, 2
               Word(0, 1, 2, 3),     \* 214: (skipped)
               Word(4, 1, 0, 2),     \* 216: SNE V1, 2
               Word(5, 1, 1, 0),     \* 218: SE V1, V1
               Word(0, 1, 2, 3),     \* 21A: (skipped)
               Word(9, 0, 1, 0),     \* 21C: SNE V0, V1
               Word(0, 1, 2, 3),     \* 21E: (skipped)
               Word(1, 2, 2, 0) >>)  \* 220: JP 220

\* Memory instructions, the random number, the keypad skips, the delay timer.
MemRom ==
    Program(<< Word(6, 0, 9, 12),    \* 200: LD V0, 9C
               Word(10, 3, 0, 0),    \* 202: LD I, 300
               Word(15, 0, 3, 3),    \* 204: LD B, V0
               Word(15, 2, 5, 5),    \* 206: LD [I], V2
               Word(15, 2, 6, 5),    \* 208: LD V2, [I]
               Word(12, 1, 0, 15),   \* 20A: RND V1, 0F
               Word(14, 1, 9, 14),   \* 20C: SKP V1
               Word(14, 1, 10, 1),   \* 20E: SKNP V1
               Word(15, 1, 2, 9),    \* 210: LD F, V1
               Word(15, 0, 1, 5),    \* 212: LD DT, V0
               Word(15, 4, 0, 7),    \* 214: LD V4, DT
               Word(14, 0, 9, 14),   \* 216: SKP V0   (V0 = 9C)
               Word(1, 2, 1, 8) >>)  \* 218: JP 218

\* Register values and register numbers the ROM families below range over.
ByteSamples == {0, 1, 16, 127, 128, 255}

RegisterSamples == {0, 1, 15}

\* LD Vx, byte
LoadByte(x, byte) == Word(6, x, byte \div 16, byte % 16)

\* Load Vx and Vy, then one 8XY_ instruction.
BinaryOpRom(op, x, y, a, b) ==
    Program(<< LoadByte(x, a),       \* 200: LD Vx, a
               LoadByte(y, b),       \* 202: LD Vy, b
               Word(8, x, y, op),    \* 204: 8XY_
               Word(1, 2, 0, 6) >>)  \* 206: JP 206

BinaryOpRoms ==
    {BinaryOpRom(op, x, y, a, b) :
        op \in {4, 5}, x \in RegisterSamples, y \in RegisterSamples,
        a \in ByteSamples, b \in ByteSamples}

\* Load Vx, then LD F, Vx.
FontRom(x, a) ==
    Program(<< LoadByte(x, a),       \* 200: LD Vx, a
               Word(15, x, 2, 9),    \* 202: LD F, Vx
               Word(1, 2, 0, 4) >>)  \* 204: JP 204

FontRoms == {FontRom(x, a) : x \in RegisterSamples, a \in ByteSamples}

\* Start positions of a sprite: inside the screen, across the right and the
\* bottom edge, and past the screen size.
PositionSamples == {0, 16, 62, 255}

\* Draw the glyph 0 at (0, 0), load Vx and Vy, point I at a glyph, then the
\* same DXYN twice in a row.
DrawTwiceRom(x, y, a, b, n, glyph) ==
    Program(<< Word(13, 2, 2, 5),                        \* 200: DRW V2, V2, 5
               LoadByte(x, a),                           \* 202: LD Vx, a
               LoadByte(y, b),                           \* 204: LD Vy, b
               Word(10, 0, glyph \div 16, glyph % 16),   \* 206: LD I, glyph
               Word(13, x, y, n),                        \* 208: DRW Vx, Vy, n
               Word(13, x, y, n),                        \* 20A: DRW Vx, Vy, n
               Word(1, 2, 0, 12) >>)                     \* 20C: JP 20C

DrawTwiceRoms ==
    {DrawTwiceRom(xy[1], xy[2], a, b, n, glyph) :
        xy \in {<<0, 1>>, <<1, 15>>, <<15, 0>>},
        a \in PositionSamples, b \in PositionSamples,
        n \in {5, 15}, glyph \in {0, 75}}

\* LD I, addr
LoadIndex(addr) == 10 * 4096 + addr

\* Load V0, V1 and VF, store V0..Vx at addr, overwrite the three registers,
\* read V0..Vx back.
StoreReadRom(x, a, addr) ==
    Program(<< LoadByte(0, a),                \* 200: LD V0, a
               LoadByte(1, (a + 1) % U8),     \* 202: LD V1, a + 1
               LoadByte(15, (a + 2) % U8),    \* 204: LD VF, a + 2
               LoadIndex(addr),               \* 206: LD I, addr
               Word(15, x, 5, 5),             \* 208: LD [I], Vx
               LoadByte(0, 238),              \* 20A: LD V0, EE
               LoadByte(1, 238),              \* 20C: LD V1, EE
               LoadByte(15, 238),             \* 20E: LD VF, EE
               Word(15, x, 6, 5),             \* 210: LD Vx, [I]
               Word(1, 2, 1, 2) >>)           \* 212: JP 212

\* The addresses: free memory, and the last two bytes of memory.
StoreReadRoms ==
    {StoreReadRom(x, a, addr) :
        x \in RegisterSamples, a \in {0, 127, 254, 255}, addr \in {768, 4094}}

\* Load Vx, point I at addr, then LD B, Vx.
BcdRom(x, b, addr) ==
    Program(<< LoadByte(x, b),         \* 200: LD Vx, b
               LoadIndex(addr),        \* 202: LD I, addr
               Word(15, x, 3, 3),      \* 204: LD B, Vx
               Word(1, 2, 0, 6) >>)    \* 206: JP 206

\* Every byte in V0 with I in free memory; sample bytes in other registers
\* with I in free memory, on the last three bytes of memory and one past.
BcdRoms ==
    {BcdRom(0, b, 768) : b \in 0..(U8 - 1)}
      \cup {BcdRom(x, b, addr) :
               x \in RegisterSamples, b \in ByteSamples, addr \in {768, 4093, 4094}}

ROMS ==
    {KeyWaitRom, CallRom, CallRetRom, JumpOffsetRom, TopOfMemoryRom,
     EndOfMemoryRom, DrawRom,
     DrawBeyondRom, IndexBeyondRom, SubnRom, ShiftRom, AluRom, MemRom}

-----------------------------------------------------------------------------
(* The state machine *)

\* The Chip value the variables hold.
Self ==
    [memory |-> memory, pc |-> pc, registers |-> registers, i |-> i,
     dt |-> dt, st |-> st, waiting_for_key |-> waiting_for_key,
     waiting_key_register |-> waiting_key_register, screen |-> screen,
     stack |-> stack, keypad |-> keypad]

\* The variables hold the Chip value c in the next state.
Becomes(c) ==
    /\ memory' = c.memory
    /\ pc' = c.pc
    /\ registers' = c.registers
    /\ i' = c.i
    /\ dt' = c.dt
    /\ st' = c.st
    /\ waiting_for_key' = c.waiting_for_key
    /\ waiting_key_register' = c.waiting_key_register
    /\ screen' = c.screen
    /\ stack' = c.stack
    /\ keypad' = c.keypad

\* `last` records what the last step of the loop did: the step ("new",
\* "timers", "events", "exec", or "parked" for an iteration that skips
\* execute_instruction), the word it fetched (-1 when it fetched none), how
\* execute_instruction ended, whether the key-wait was armed before the step,
\* and for a drain: how many events it ingested before it ended, the logical
\* keys of the mapped keydowns among them, in order, and whether the drain
\* held a quit signal (Event::Quit or the keydown of Escape).
Did(step, instruction, result, armed, ingested, keys) ==
    [step |-> step, instruction |-> instruction, result |-> result,
     armed |-> armed, ingested |-> ingested, keys |-> keys, quit |-> FALSE]

\* The events of a drain that are ingested: those before the first quit.
RECURSIVE Ingested(_, _)
Ingested(events, k) ==
    IF k > Len(events) THEN Len(events)
    ELSE IF \/ events[k].type = "Quit"
            \/ events[k].type = "KeyDown" /\ events[k].keycode = "Escape"
         THEN k - 1
         ELSE Ingested(events, k + 1)

\* The logical keys of the mapped keydowns among the first n events.
RECURSIVE KeysDown(_, _)
KeysDown(events, n) ==
    IF n = 0 THEN << >>
    ELSE IF events[n].type = "KeyDown" /\ events[n].keycode \in DOMAIN keypad_map
         THEN Append(KeysDown(events, n - 1), keypad_map[events[n].keycode])
         ELSE KeysDown(events, n - 1)

\* The record of a drain.
Drained(events) ==
    [Did("events", -1, "", waiting_for_key, Ingested(events, 1),
         KeysDown(events, Ingested(events, 1)))
       EXCEPT !.quit = Ingested(events, 1) < Len(events)]

(* main, lines 24-25, on one of the ROM files `roms`, and the entry of a loop
   at `entry`. *)
StartOn(roms, entry) ==
    /\ \E rom \in roms :
          \E chip \in {load(new, rom)} :
              /\ memory = chip.memory
              /\ pc = chip.pc
              /\ registers = chip.registers
              /\ i = chip.i
              /\ dt = chip.dt
              /\ st = chip.st
              /\ waiting_for_key = chip.waiting_for_key
              /\ waiting_key_register = chip.waiting_key_register
              /\ screen = chip.screen
              /\ stack = chip.stack
              /\ keypad = chip.keypad
    /\ loc = entry
    /\ status = "running"
    /\ last = Did("new", -1, "", FALSE, 0, << >>)

Start(entry) == StartOn(ROMS, entry)

\* The word execute_instruction fetches in this state, -1 when it fetches none.
Fetched == IF pc + 1 >= 4096 THEN -1 ELSE fetch(Self)

\* The next state after execute_instruction ended as r, the loop going on at
\* `next` when it ended Ok.  An Err ends the loop ("error"): start_loop
\* returns it through `?`, main panics on it in expect().
Executed(r, next) ==
    /\ Becomes(r.chip)
    /\ last' = Did("exec", Fetched, r.result, waiting_for_key, 0, << >>)
    /\ status' = CASE r.result = "Ok" -> "running"
                   [] r.result = "Err" -> "error"
                   [] OTHER -> "panic"
    /\ loc' = IF r.result = "Ok" THEN next ELSE loc

(* Chip::start_loop, lines 387-394 *)
Timers ==
    /\ status = "running"
    /\ loc = "timers"
    /\ Becomes(timers(Self))
    /\ last' = Did("timers", -1, "", waiting_for_key, 0, << >>)
    /\ loc' = "events"
    /\ UNCHANGED status

(* Chip::start_loop, lines 396-424 *)
Events ==
    /\ status = "running"
    /\ loc = "events"
    /\ \E events \in Drains :
          LET r == poll_events(Self, events, 1)
          IN  /\ Becomes(r.chip)
              /\ last' = Drained(events)
              /\ status' = IF r.quit THEN "quit" ELSE "running"
              /\ loc' = IF r.quit THEN loc ELSE "exec"

(* Chip::start_loop, lines 426-430 *)
Execute ==
    /\ status = "running"
    /\ loc = "exec"
    /\ IF ~waiting_for_key
       THEN \E rand_num \in RandomBytes, overflow_checks \in BOOLEAN :
               Executed(execute_instruction(Self, rand_num, overflow_checks), "timers")
       ELSE /\ loc' = "timers"
            /\ last' = Did("parked", -1, "", waiting_for_key, 0, << >>)
            /\ UNCHANGED <<memory, pc, registers, i, dt, st, waiting_for_key,
                           waiting_key_register, screen, stack, keypad, status>>

(* main, lines 34-43 *)
MainEvents ==
    /\ status = "running"
    /\ loc = "events"
    /\ \E events \in Drains :
          /\ last' = Drained(events)
          /\ status' = IF main_poll_events(events) THEN "quit" ELSE "running"
          /\ loc' = IF main_poll_events(events) THEN loc ELSE "exec"
    /\ UNCHANGED <<memory, pc, registers, i, dt, st, waiting_for_key,
                   waiting_key_register, screen, stack, keypad>>

(* main, lines 44-46 *)
MainExecute ==
    /\ status = "running"
    /\ loc = "exec"
    /\ \E rand_num \in RandomBytes, overflow_checks \in BOOLEAN :
          Executed(execute_instruction(Self, rand_num, overflow_checks), "events")

\* The program: main.
Init == Start("events")

Next == MainEvents \/ MainExecute

Spec == Init /\ [][Next]_vars

\* Chip::start_loop on a loaded chip.
InitLoop == Start("timers")

NextLoop == Timers \/ Events \/ Execute

SpecLoop == InitLoop /\ [][NextLoop]_vars

\* The ROM files of SpecStep.
StepRoms ==
    BinaryOpRoms \cup FontRoms \cup DrawTwiceRoms \cup StoreReadRoms \cup BcdRoms

(* main, lines 44-46, in a run whose drains deliver no event: *)
(* execute_instruction called again and again on the loaded chip. *)
StepExecute ==
    /\ status = "running"
    /\ loc = "exec"
    /\ \E rand_num \in RandomBytes, overflow_checks \in BOOLEAN :
          Executed(execute_instruction(Self, rand_num, overflow_checks), "exec")

InitStep == StartOn(StepRoms, "exec")

NextStep == StepExecute

SpecStep == InitStep /\ [][NextStep]_vars

-----------------------------------------------------------------------------
(* Properties *)

\* This step called execute_instruction and it fetched a word.
Fetching == last'.step = "exec" /\ last'.instruction # -1

\* The fields X and Y of an instruction word.
FieldX(word) == (word % 4096) \div 256

FieldY(word) == (word % 256) \div 16

\* This step executed an FXnn instruction with low byte nn.
FetchingF(nn) ==
    Fetching /\ last'.instruction \div 4096 = 15 /\ last'.instruction % 256 = nn

\* C1: while the key-wait latch is armed no step of the run loop executes an
\* instruction: PC, I, memory, the stack and the framebuffer stay as they are.
C1_NoInstructionWhileArmed ==
    [][waiting_for_key =>
          /\ last'.step # "exec"
          /\ pc' = pc /\ i' = i /\ memory' = memory
          /\ stack' = stack /\ screen' = screen]_vars

\* C2: the key-wait is a two-state machine.  FX0A arms the latch with target
\* X.  A drain that finds the latch armed stores the first mapped keydown it
\* ingests into V[target] and disarms the latch, and writes no other register;
\* without a mapped keydown the latch stays armed and no register changes.  A
\* drain that finds the latch disarmed writes no register and leaves it so.
C2_KeyWaitMachine ==
    [][/\ FetchingF(10) =>
             /\ waiting_for_key'
             /\ waiting_key_register' = FieldX(last'.instruction)
       /\ (last'.step = "events" /\ waiting_for_key /\ Len(last'.keys) > 0) =>
             /\ ~waiting_for_key'
             /\ registers' = [registers EXCEPT ![waiting_key_register] = last'.keys[1]]
       /\ (last'.step = "events" /\ waiting_for_key /\ Len(last'.keys) = 0) =>
             /\ waiting_for_key'
             /\ registers' = registers
       /\ (last'.step = "events" /\ ~waiting_for_key) =>
             /\ ~waiting_for_key'
             /\ registers' = registers
       /\ (waiting_for_key' # waiting_for_key) =>
             \/ FetchingF(10)
             \/ last'.step = "events"]_vars

\* C2 witness: a drain found the latch armed and ingested two mapped keydowns
\* of different keys; the target register holds the first.
C2_Witness ==
    /\ last.step = "events"
    /\ last.armed
    /\ Len(last.keys) = 2
    /\ last.keys[1] # last.keys[2]
    /\ ~waiting_for_key
    /\ registers[waiting_key_register] = last.keys[1]

\* C3: in every iteration of the run loop the timers decrement, then the
\* input events are ingested, then at most one instruction executes; an
\* instruction executes only with the latch disarmed, so FX0A parks the CPU
\* until a drain of a later iteration ingests a keydown.
C3_IterationOrder ==
    [][/\ last'.step = "timers" => last.step \in {"new", "exec", "parked"}
       /\ last'.step = "events" => last.step = "timers"
       /\ last'.step \in {"exec", "parked"} => last.step = "events"
       /\ last'.step = "exec" => ~waiting_for_key
       /\ (last.step = "exec" /\ last.instruction \div 4096 = 15
              /\ last.instruction % 256 = 10 /\ last'.step # "events") =>
             waiting_for_key']_vars

\* C4: CALL pushes the return address and jumps at every depth below
\* STACK_SIZE, fails exactly at depth STACK_SIZE, and the depth never exceeds
\* STACK_SIZE.
C4_CallUpToCapacity ==
    /\ [][(Fetching /\ last'.instruction \div 4096 = 2) =>
             IF Len(stack) < STACK_SIZE
             THEN /\ status' = "running"
                  /\ stack' = Append(stack, pc + 2)
                  /\ pc' = last'.instruction % 4096
             ELSE status' = "error"]_vars
    /\ [](Len(stack) <= STACK_SIZE)

\* C5: RET with an empty stack ends the loop with an error: PC keeps the value
\* the fetch gave it, the stack stays empty, and no step follows the error.
C5_RetOnEmptyStackIsFatal ==
    [][/\ (Fetching /\ last'.instruction = 238 /\ Len(stack) = 0) =>
             /\ status' = "error"
             /\ last'.result = "Err"
             /\ pc' = pc + 2
             /\ stack' = << >>
       /\ status = "error" => UNCHANGED vars]_vars

\* C5 witness: the loop has ended on a RET fetched with an empty stack.
C5_Witness ==
    /\ status = "error"
    /\ last.step = "exec"
    /\ last.instruction = 238
    /\ last.result = "Err"
    /\ Len(stack) = 0

\* C6: PC is in [0, 4095] in every reachable state.
C6_PcInRange == pc \in 0..(MEMORY_SIZE - 1)

\* C7: a timers step decrements DT and ST by exactly 1 when non-zero and
\* leaves them at 0 otherwise; no other step changes DT or ST except FX15
\* (DT <- Vx) and FX18 (ST <- Vx).
C7_Timers ==
    [][/\ last'.step = "timers" =>
             /\ dt' = (IF dt > 0 THEN dt - 1 ELSE 0)
             /\ st' = (IF st > 0 THEN st - 1 ELSE 0)
       /\ dt' # dt =>
             \/ last'.step = "timers"
             \/ FetchingF(21) /\ dt' = registers[FieldX(last'.instruction)]
       /\ st' # st =>
             \/ last'.step = "timers"
             \/ FetchingF(24) /\ st' = registers[FieldX(last'.instruction)]
       /\ (last.step \in {"exec", "parked"} /\ status = "running") =>
             last'.step = "timers"]_vars

\* C7 witness: the timers, set to 3 by FX15 and FX18, have run down to 0
\* while the CPU is parked, and a timers step has just left them at 0.
C7_Witness ==
    /\ last.step = "timers"
    /\ registers[0] = 3
    /\ waiting_for_key
    /\ dt = 0
    /\ st = 0

\* C8: DXYN whose sprite rows I..I+N-1 reach past the last byte of memory
\* does not end the loop.
C8_DrawBeyondMemoryContinues ==
    [][(Fetching /\ last'.instruction \div 4096 = 13
           /\ i + (last'.instruction % 16) > MEMORY_SIZE) =>
          /\ last'.result = "Ok"
          /\ status' = "running"]_vars

\* C9: 8XY7 sets Vx to (Vy - Vx) mod 256 and VF to 1 if Vy >= Vx, else 0.
C9_Subn ==
    [][(Fetching /\ last'.instruction \div 4096 = 8 /\ last'.instruction % 16 = 7) =>
          LET x == FieldX(last'.instruction)
              y == FieldY(last'.instruction)
          IN  /\ x # 15 => registers'[x] = (registers[y] + U8 - registers[x]) % U8
              /\ registers'[15] = IF registers[y] >= registers[x] THEN 1 ELSE 0]_vars

\* C10: 8XYE sets VF to bit 7 of Vx and Vx to (Vx << 1) mod 256.
C10_Shl ==
    [][(Fetching /\ last'.instruction \div 4096 = 8 /\ last'.instruction % 16 = 14) =>
          LET x == FieldX(last'.instruction)
          IN  /\ registers'[x] = (registers[x] * 2) % U8
              /\ x # 15 => registers'[15] = registers[x] \div 128]_vars

\* The blit a DXYN word would do in this state erases a lit pixel: some sprite
\* bit that is 1 lands on a framebuffer pixel that is 1.
Erases(word) ==
    \E row \in 0..((word % 16) - 1), column \in 0..7 :
        /\ i + row < MEMORY_SIZE
        /\ BitAnd(memory[i + row] \div (2 ^ (7 - column)), 1) = 1
        /\ screen[((registers[FieldY(word)] + row) % HEIGHT) * WIDTH
                  + ((registers[FieldX(word)] + column) % WIDTH)] = 1

\* C11: after DXYN, VF = 1 iff this blit erased at least one lit pixel and
\* VF = 0 otherwise, whatever VF held before.
C11_DrawFlag ==
    [][(Fetching /\ last'.instruction \div 4096 = 13 /\ last'.result = "Ok") =>
          registers'[15] = IF Erases(last'.instruction) THEN 1 ELSE 0]_vars

\* C12: after 8XY5, VF = 1 if Vx >= Vy, else 0, and for X # F
\* Vx = (Vx - Vy) mod 256.
C12_Sub ==
    [][(Fetching /\ last'.instruction \div 4096 = 8 /\ last'.instruction % 16 = 5) =>
          LET x == FieldX(last'.instruction)
              y == FieldY(last'.instruction)
          IN  /\ registers'[15] = IF registers[x] >= registers[y] THEN 1 ELSE 0
              /\ x # 15 => registers'[x] = (registers[x] + U8 - registers[y]) % U8]_vars

\* C13: after 8XY4, VF = 1 iff Vx + Vy >= 256, else 0, and for X # F
\* Vx = (Vx + Vy) mod 256; no other register changes and PC moves to the next
\* instruction.
C13_Add ==
    [][(Fetching /\ last'.instruction \div 4096 = 8 /\ last'.instruction % 16 = 4) =>
          LET x == FieldX(last'.instruction)
              y == FieldY(last'.instruction)
          IN  /\ registers'[15] = IF registers[x] + registers[y] >= U8 THEN 1 ELSE 0
              /\ x # 15 => registers'[x] = (registers[x] + registers[y]) % U8
              /\ \A r \in 0..14 : r # x => registers'[r] = registers[r]
              /\ pc' = pc + 2
              /\ last'.result = "Ok"]_vars

\* C13 witness: ADD VF, V1 has run with VF = 128 and V1 = 255: the sum
\* carries, and VF holds the carry, not the low byte 127 of the sum.
C13_Witness ==
    /\ last.step = "exec"
    /\ last.instruction = Word(8, 15, 1, 4)
    /\ memory[ROM_START + 1] = 128
    /\ registers[1] = 255
    /\ registers[15] = 1

\* C14: EX9E skips the next instruction iff keypad[Vx & 0xF] is pressed, EXA1
\* iff it is not pressed, and neither ends the loop, for every value of Vx.
C14_KeySkips ==
    [][(Fetching /\ last'.instruction \div 4096 = 14
           /\ last'.instruction % 256 \in {158, 161}) =>
          LET pressed == keypad[registers[FieldX(last'.instruction)] % 16]
              skips == IF last'.instruction % 256 = 158 THEN pressed ELSE ~pressed
          IN  /\ last'.result = "Ok"
              /\ status' = "running"
              /\ pc' = IF skips THEN pc + 4 ELSE pc + 2]_vars

\* C15: FX29 sets I to (Vx & 0xF) * 5, and the five bytes at I are the glyph
\* of the hex digit Vx & 0xF.
C15_FontAddress ==
    [][FetchingF(41) =>
          LET digit == registers[FieldX(last'.instruction)] % 16
          IN  /\ i' = digit * 5
              /\ \A k \in 0..4 : memory'[i' + k] = font_data[digit * 5 + k + 1]]_vars

\* The opcode table: the 35 instructions.
Listed(word) ==
    LET nibble == word \div 4096
    IN  CASE nibble = 0 -> word \in {224, 238}
          [] nibble \in {5, 9} -> word % 16 = 0
          [] nibble = 8 -> word % 16 \in {0, 1, 2, 3, 4, 5, 6, 7, 14}
          [] nibble = 14 -> word % 256 \in {158, 161}
          [] nibble = 15 -> word % 256 \in {7, 10, 21, 24, 30, 41, 51, 85, 101}
          [] OTHER -> TRUE

\* C16: an opcode outside the table is ignored: PC advances by 2 and nothing
\* else changes.
C16_UnlistedIgnored ==
    [][(Fetching /\ ~Listed(last'.instruction)) =>
          /\ last'.result = "Ok"
          /\ status' = "running"
          /\ pc' = pc + 2
          /\ UNCHANGED <<memory, registers, i, dt, st, waiting_for_key,
                         waiting_key_register, screen, stack, keypad>>]_vars

\* C17: a DXYN executed twice in a row, with Vx, Vy, I, N and the sprite bytes
\* the same for both, leaves the framebuffer as it was before the first of the
\* two, from every start position, those where the sprite wraps at an edge
\* included; every pixel is 0 or 1 after each of the two.
C17_DrawTwiceRestores ==
    [][(/\ Fetching
        /\ last'.instruction \div 4096 = 13
        /\ last'.result = "Ok"
        /\ pc' + 1 < MEMORY_SIZE
        /\ fetch(Self') = last'.instruction
        /\ registers'[FieldX(last'.instruction)] = registers[FieldX(last'.instruction)]
        /\ registers'[FieldY(last'.instruction)] = registers[FieldY(last'.instruction)]
        /\ i' = i
        /\ memory' = memory) =>
          \A rand_num \in RandomBytes, overflow_checks \in BOOLEAN :
             \A second \in {execute_instruction(Self', rand_num, overflow_checks)} :
                 /\ second.result = "Ok"
                 /\ second.chip.screen = screen
                 /\ \A p \in DOMAIN screen : screen'[p] \in {0, 1}
                 /\ \A p \in DOMAIN screen : second.chip.screen[p] \in {0, 1}]_vars

\* The second of two DXYN in a row has ended, the sprite lying across the
\* right and the bottom edge of a screen that has lit pixels.
C17_Witness ==
    /\ last.step = "exec"
    /\ last.result = "Ok"
    /\ last.instruction \div 4096 = 13
    /\ last.instruction % 16 = 5
    /\ pc = 524
    /\ memory[pc - 4] * 256 + memory[pc - 3] = last.instruction
    /\ memory[pc - 2] * 256 + memory[pc - 1] = last.instruction
    /\ registers[FieldX(last.instruction)] = 62
    /\ registers[FieldY(last.instruction)] = 255
    /\ i = 75
    /\ screen[0] = 1
    /\ \A p \in DOMAIN screen : screen[p] = 1 => p % WIDTH < 4 /\ p \div WIDTH < 5

\* C18: a drain that holds a quit signal (Event::Quit or the keydown of
\* Escape) ends the loop normally: the chip is as the events before the
\* signal left it, no event after the signal is ingested, and no step of the
\* loop (no timer tick, no drain, no instruction) follows.
C18_QuitEndsTheLoop ==
    [][/\ status # "quit"
       /\ (last'.step = "events" /\ last'.quit) =>
             /\ status' = "quit"
             /\ \E events \in Drains :
                   /\ Ingested(events, 1) < Len(events)
                   /\ last' = Drained(events)
                   /\ Self' = poll_events(Self, SubSeq(events, 1, Ingested(events, 1)), 1).chip
       /\ (last'.step = "events" /\ ~last'.quit) => status' = "running"]_vars

\* The loop has ended on a drain that pressed key 1 and then held a quit
\* signal.
C18_Witness ==
    /\ status = "quit"
    /\ last.step = "events"
    /\ last.quit
    /\ last.ingested = 1
    /\ last.keys = << 1 >>
    /\ keypad[1]

\* C19: execute_instruction called with pc + 1 >= 4096 fetches nothing,
\* returns Ok and leaves the chip (pc, registers, I, memory, stack, screen,
\* key-wait latch and the rest) as it was; the loop goes on to its next
\* iteration.
C19_NoOpAtEndOfMemory ==
    [][(last'.step = "exec" /\ pc + 1 >= MEMORY_SIZE) =>
          /\ last'.instruction = -1
          /\ last'.result = "Ok"
          /\ Self' = Self
          /\ status' = "running"
          /\ loc' = "timers"]_vars

\* With pc on the last byte of memory, the loop has gone through iterations
\* that executed nothing: the delay timer has counted down from 5 to 1 and
\* the last drain pressed key 1.
C19_Witness ==
    /\ pc = MEMORY_SIZE - 1
    /\ status = "running"
    /\ last.step = "events"
    /\ last.keys = << 1 >>
    /\ keypad[1]
    /\ dt = 1
    /\ registers[0] = 5

\* C20: FX55 writes V0..Vx to memory[I..I+X] and nothing else; FX65 reads
\* V0..Vx from memory[I..I+X] and changes nothing else; neither changes I.
\* So an FX65 with the same X, executed on the chip FX55 left with the same I
\* and the same memory, whatever the registers have become since, gives
\* V0..Vx the values they had before the FX55.
C20_StoreThenRead ==
    [][/\ (FetchingF(85) /\ last'.result = "Ok") =>
             LET x == FieldX(last'.instruction)
             IN  /\ i' = i
                 /\ registers' = registers
                 /\ \A a \in DOMAIN memory :
                       memory'[a] = IF a \in i..(i + x) THEN registers[a - i] ELSE memory[a]
                 /\ \A byte \in {0, 238}, overflow_checks \in BOOLEAN :
                       \A read \in {timers_and_sound(
                                        [Self' EXCEPT !.registers = [r \in DOMAIN registers |-> byte]],
                                        Word(15, x, 6, 5), overflow_checks)} :
                           /\ read.result = "Ok"
                           /\ read.chip.i = i
                           /\ \A k \in 0..x : read.chip.registers[k] = registers[k]
       /\ (FetchingF(101) /\ last'.result = "Ok") =>
             LET x == FieldX(last'.instruction)
             IN  /\ i' = i
                 /\ memory' = memory
                 /\ \A k \in DOMAIN registers :
                       registers'[k] = IF k <= x THEN memory[i + k] ELSE registers[k]]_vars

\* F155 at I = FFE stored V0 = FF and V1 = 00, the registers were overwritten
\* with EE, and F165 has read the two back: VF keeps the EE.
C20_Witness ==
    /\ last.step = "exec"
    /\ last.instruction = Word(15, 1, 6, 5)
    /\ last.result = "Ok"
    /\ pc = 530
    /\ i = 4094
    /\ memory[4094] = 255
    /\ memory[4095] = 0
    /\ registers[0] = 255
    /\ registers[1] = 0
    /\ registers[15] = 238

\* C21: FX33 executed with I + 2 <= 4095 returns Ok and writes to
\* memory[I], memory[I+1], memory[I+2] three digits, each in 0..9, with
\* 100 * memory[I] + 10 * memory[I+1] + memory[I+2] = Vx, for every value of
\* Vx in 0..255; no other byte of memory, no register and not I changes.
C21_Bcd ==
    [][(FetchingF(51) /\ i + 2 <= MEMORY_SIZE - 1) =>
          /\ last'.result = "Ok"
          /\ status' = "running"
          /\ \A k \in 0..2 : memory'[i + k] \in 0..9
          /\ 100 * memory'[i] + 10 * memory'[i + 1] + memory'[i + 2]
                = registers[FieldX(last'.instruction)]
          /\ \A a \in DOMAIN memory : a \notin i..(i + 2) => memory'[a] = memory[a]
          /\ registers' = registers
          /\ i' = i]_vars

\* FF33 has written the digits 2, 5, 5 of VF = 255 on the last three bytes of
\* memory.
C21_Witness ==
    /\ last.step = "exec"
    /\ last.instruction = Word(15, 15, 3, 3)
    /\ last.result = "Ok"
    /\ registers[15] = 255
    /\ i = 4093
    /\ memory[4093] = 2
    /\ memory[4094] = 5
    /\ memory[4095] = 5

\* This step executed a CALL (2NNN) or a RET (00EE) that returned Ok.
Called == Fetching /\ last'.result = "Ok" /\ last'.instruction \div 4096 = 2

Returned == Fetching /\ last'.result = "Ok" /\ last'.instruction = 238

\* C22: the stack starts empty; a CALL that does not overflow pushes the
\* address after itself and jumps; a RET that does not underflow sets PC to
\* the top of the stack, which is the address right after a CALL instruction
\* (the most recent one not yet returned from), and pops it; no other step
\* changes the stack.  So the depth of the stack is at every moment the
\* number of CALLs executed minus the number of RETs executed.
C22_CallRetLifo ==
    /\ Len(stack) = 0
    /\ [][/\ Called =>
                /\ stack' = Append(stack, pc + 2)
                /\ pc' = last'.instruction % 4096
                /\ Len(stack') = Len(stack) + 1
          /\ Returned =>
                /\ Len(stack) > 0
                /\ pc' = stack[Len(stack)]
                /\ memory[pc' - 2] \div 16 = 2
                /\ stack' = SubSeq(stack, 1, Len(stack) - 1)
                /\ Len(stack') = Len(stack) - 1
          /\ ~(Called \/ Returned) => stack' = stack]_vars

\* Two calls are nested (200 calls 206, 206 calls 20A) and the RET at 20A has
\* returned to 208, after the inner CALL, the outer one still pending.
C22_Witness ==
    /\ last.step = "exec"
    /\ last.instruction = 238
    /\ last.result = "Ok"
    /\ pc = 520
    /\ stack = << 514 >>
    /\ memory[518] * 256 + memory[519] = Word(2, 2, 0, 10)
=============================================================================
